---- MODULE Spec2Model ----
(***************************************************************************)
(* Model of app.py: the name matcher (normalize / fuzzy_match), the risk   *)
(* aggregator (compute_risk) and the screening script that wires the two   *)
(* list loaders, the domain lookup and the risk assessment together.       *)
(*                                                                         *)
(* A text is a sequence of one-character strings.  A similarity score is   *)
(* the exact value of the float rapidfuzz returns, kept as a reduced       *)
(* fraction [num, den], so that ">= 85" and ties are decided exactly.      *)
(***************************************************************************)
EXTENDS Integers, Sequences, FiniteSets, TLC

\* ------------------------------------------------------------------------
\* Bounds of the model
\* ------------------------------------------------------------------------

\* longest candidate list handed to fuzzy_match when it is checked alone
MaxCands == 3

\* longest candidate list a loader returns in a screening run
MaxLoaded == 2

\* ------------------------------------------------------------------------
\* Texts
\* ------------------------------------------------------------------------

\* None where a text is expected: no text has an element of four characters
NoValue == <<"None">>

Upper == <<"A","B","C","D","E","F","G","H","I","J","K","L","M",
           "N","O","P","Q","R","S","T","U","V","W","X","Y","Z">>

Lower == <<"a","b","c","d","e","f","g","h","i","j","k","l","m",
           "n","o","p","q","r","s","t","u","v","w","x","y","z">>

IsUpper(c) == \E i \in 1..26 : Upper[i] = c

IsLower(c) == \E i \in 1..26 : Lower[i] = c

IsSpace(c) == c \in {" ", "\t", "\n"}

\* code point of a character: the order Python compares strings by
CodePoint(c) ==
    IF c = "\t" THEN 9
    ELSE IF c = "\n" THEN 10
    ELSE IF c = " " THEN 32
    ELSE IF c = "," THEN 44
    ELSE IF IsUpper(c) THEN 64 + (CHOOSE i \in 1..26 : Upper[i] = c)
    ELSE IF IsLower(c) THEN 96 + (CHOOSE i \in 1..26 : Lower[i] = c)
    ELSE 127

lower_char(c) == IF IsUpper(c) THEN Lower[CHOOSE i \in 1..26 : Upper[i] = c] ELSE c

\* str.lower()
lower(text) == [i \in 1..Len(text) |-> lower_char(text[i])]

RECURSIVE split_from(_, _, _, _)
split_from(text, i, cur, acc) ==
    IF i > Len(text)
    THEN IF cur = <<>> THEN acc ELSE Append(acc, cur)
    ELSE IF IsSpace(text[i])
         THEN split_from(text, i + 1, <<>>, IF cur = <<>> THEN acc ELSE Append(acc, cur))
         ELSE split_from(text, i + 1, Append(cur, text[i]), acc)

\* str.split() without arguments: the maximal runs of non-whitespace
split(text) == split_from(text, 1, <<>>, <<>>)

RECURSIVE join(_, _)
\* sep.join(parts)
join(sep, parts) ==
    IF parts = <<>> THEN <<>>
    ELSE IF Len(parts) = 1 THEN parts[1]
    ELSE parts[1] \o sep \o join(sep, Tail(parts))

normalize(text) == join(<<" ">>, split(lower(text)))

\* ------------------------------------------------------------------------
\* rapidfuzz: fuzz.token_sort_ratio
\* ------------------------------------------------------------------------

RECURSIVE str_lt(_, _)
\* s < t for Python strings (lexicographic by code point)
str_lt(s, t) ==
    IF t = <<>> THEN FALSE
    ELSE IF s = <<>> THEN TRUE
    ELSE IF CodePoint(s[1]) # CodePoint(t[1]) THEN CodePoint(s[1]) < CodePoint(t[1])
    ELSE str_lt(Tail(s), Tail(t))

RECURSIVE insert_token(_, _)
insert_token(tok, sortedToks) ==
    IF sortedToks = <<>> THEN <<tok>>
    ELSE IF str_lt(tok, sortedToks[1]) THEN <<tok>> \o sortedToks
    ELSE <<sortedToks[1]>> \o insert_token(tok, Tail(sortedToks))

RECURSIVE sorted_tokens(_)
\* sorted(tokens)
sorted_tokens(toks) ==
    IF toks = <<>> THEN <<>>
    ELSE insert_token(toks[Len(toks)], sorted_tokens(SubSeq(toks, 1, Len(toks) - 1)))

Max(a, b) == IF a >= b THEN a ELSE b

Min(a, b) == IF a <= b THEN a ELSE b

RECURSIVE lcs_row(_, _, _, _, _)
\* one row of the longest-common-subsequence table; row[j + 1] is column j
lcs_row(prev, ch, t, j, acc) ==
    IF j > Len(t) THEN acc
    ELSE lcs_row(prev, ch, t, j + 1,
                 Append(acc, IF ch = t[j] THEN prev[j] + 1
                             ELSE Max(prev[j + 1], acc[j])))

RECURSIVE lcs_rows(_, _, _, _)
lcs_rows(s, t, i, prev) ==
    IF i > Len(s) THEN prev[Len(t) + 1]
    ELSE LET row == lcs_row(prev, s[i], t, 1, <<0>>)
         \* the test only makes TLC compute the row before the next one
         IN  IF Len(row) = Len(t) + 1 THEN lcs_rows(s, t, i + 1, row) ELSE 0

\* length of the longest common subsequence of s and t
lcs_len(s, t) == lcs_rows(s, t, 1, [j \in 1..(Len(t) + 1) |-> 0])

RECURSIVE gcd(_, _)
gcd(a, b) == IF b = 0 THEN a ELSE gcd(b, a % b)

\* the number n / d as a reduced fraction
Frac(n, d) == [num |-> n \div gcd(n, d), den |-> d \div gcd(n, d)]

score_ge(s, n) == s.num >= n * s.den

score_gt(s, n) == s.num > n * s.den

\* s > t for two scores
score_above(s, t) == s.num * t.den > t.num * s.den

\* fuzz.ratio: 100 * (1 - indel_distance / (len1 + len2)), and 100 when
\* both strings are empty; indel_distance = len1 + len2 - 2 * lcs
ratio(s1, s2) ==
    IF Len(s1) + Len(s2) = 0 THEN Frac(100, 1)
    ELSE Frac(200 * lcs_len(s1, s2), Len(s1) + Len(s2))

plain_ratio(s1, s2) == ratio(s1, s2)

\* both strings have their tokens sorted and joined by one space, then ratio
token_sort_ratio(s1, s2) ==
    ratio(join(<<" ">>, sorted_tokens(split(s1))),
          join(<<" ">>, sorted_tokens(split(s2))))

\* ------------------------------------------------------------------------
\* fuzzy_match
\* ------------------------------------------------------------------------

MATCH_THRESHOLD == 85

keeps_strict(score) == score_gt(score, MATCH_THRESHOLD)

\* the filter of fuzzy_match: score >= MATCH_THRESHOLD
keeps(score) == score_ge(score, MATCH_THRESHOLD)

RECURSIVE insert_match_unstable(_, _)
insert_match_unstable(m, acc) ==
    IF acc = <<>> THEN <<m>>
    ELSE IF ~score_above(acc[1][2], m[2]) THEN <<m>> \o acc
    ELSE <<acc[1]>> \o insert_match_unstable(m, Tail(acc))

RECURSIVE insert_match(_, _)
\* puts m behind every match whose score is at least m's score
insert_match(m, acc) ==
    IF acc = <<>> THEN <<m>>
    ELSE IF score_above(m[2], acc[1][2]) THEN <<m>> \o acc
    ELSE <<acc[1]>> \o insert_match(m, Tail(acc))

RECURSIVE sorted_by_score_desc(_)
\* sorted(matches, key=lambda x: x[1], reverse=True): descending and stable
sorted_by_score_desc(ms) ==
    IF ms = <<>> THEN <<>>
    ELSE insert_match(ms[Len(ms)], sorted_by_score_desc(SubSeq(ms, 1, Len(ms) - 1)))

\* the score fuzzy_match gives candidate c for the normalized query q
candidate_score(q, c) == token_sort_ratio(q, normalize(c))

fuzzy_match(query, candidates) ==
    LET q == normalize(query)
        scored == [i \in 1..Len(candidates) |->
                      <<candidates[i], candidate_score(q, candidates[i])>>]
        matches == SelectSeq(scored, LAMBDA m : keeps(m[2]))
    IN  sorted_by_score_desc(matches)

\* ------------------------------------------------------------------------
\* compute_risk
\* ------------------------------------------------------------------------

FATF_HIGH_RISK ==
    { <<"i","r","a","n">>,
      <<"n","o","r","t","h"," ","k","o","r","e","a">>,
      <<"m","y","a","n","m","a","r">> }

FATF_MONITORED ==
    { <<"p","a","n","a","m","a">>,
      <<"h","a","i","t","i">>,
      <<"s","o","u","t","h"," ","s","u","d","a","n">>,
      <<"s","y","r","i","a">> }

\* truth value of a Python str-or-None
truthy(text) == text # NoValue /\ text # <<>>

compute_risk_uncapped(ofac_hit_, un_hit_, country_) ==
    LET s1 == IF ofac_hit_ THEN 60 ELSE 0
        s2 == s1 + (IF un_hit_ THEN 50 ELSE 0)
        c  == IF truthy(country_) THEN lower(country_) ELSE <<>>
        s3 == s2 + (IF c \in FATF_HIGH_RISK THEN 20 ELSE IF c \in FATF_MONITORED THEN 10 ELSE 0)
        f1 == IF ofac_hit_ THEN <<"OFAC sanctions exposure">> ELSE <<>>
        f2 == IF un_hit_ THEN Append(f1, "UN sanctions exposure") ELSE f1
        f3 == IF c \in FATF_HIGH_RISK THEN Append(f2, "High-risk FATF jurisdiction")
              ELSE IF c \in FATF_MONITORED THEN Append(f2, "FATF monitored jurisdiction")
              ELSE f2
    IN  <<s3, f3>>

compute_risk_nolower(ofac_hit_, un_hit_, country_) ==
    LET s1 == IF ofac_hit_ THEN 60 ELSE 0
        f1 == IF ofac_hit_ THEN <<"OFAC sanctions exposure">> ELSE <<>>
        s2 == s1 + (IF un_hit_ THEN 50 ELSE 0)
        f2 == IF un_hit_ THEN Append(f1, "UN sanctions exposure") ELSE f1
        c  == IF truthy(country_) THEN country_ ELSE <<>>
        s3 == s2 + (IF c \in FATF_HIGH_RISK THEN 20 ELSE IF c \in FATF_MONITORED THEN 10 ELSE 0)
        f3 == IF c \in FATF_HIGH_RISK THEN Append(f2, "High-risk FATF jurisdiction")
              ELSE IF c \in FATF_MONITORED THEN Append(f2, "FATF monitored jurisdiction")
              ELSE f2
    IN  <<Min(s3, 100), f3>>

\* returns <<score, factors>>
compute_risk(ofac_hit_, un_hit_, country_) ==
    LET s1 == IF ofac_hit_ THEN 60 ELSE 0
        f1 == IF ofac_hit_ THEN <<"OFAC sanctions exposure">> ELSE <<>>
        s2 == s1 + (IF un_hit_ THEN 50 ELSE 0)
        f2 == IF un_hit_ THEN Append(f1, "UN sanctions exposure") ELSE f1
        c  == IF truthy(country_) THEN lower(country_) ELSE <<>>
        s3 == IF ~truthy(country_) THEN s2
              ELSE IF c \in FATF_HIGH_RISK THEN s2 + 20
              ELSE IF c \in FATF_MONITORED THEN s2 + 10
              ELSE s2
        f3 == IF ~truthy(country_) THEN f2
              ELSE IF c \in FATF_HIGH_RISK THEN Append(f2, "High-risk FATF jurisdiction")
              ELSE IF c \in FATF_MONITORED THEN Append(f2, "FATF monitored jurisdiction")
              ELSE f2
    IN  <<Min(s3, 100), f3>>

\* ------------------------------------------------------------------------
\* Inputs
\* ------------------------------------------------------------------------

Rep(c, n) == [i \in 1..n |-> c]

Txt_Empty == <<>>

Txt_Blank == <<" ", " ">>

Txt_Tab == <<"\t">>

Txt_AnaLee == <<"A","n","a"," ","L","e","e">>

Txt_ana_lee == <<"a","n","a"," "," ","l","e","e">>

Txt_LeeAna == <<"L","e","e",","," ","A","n","a">>

Txt_SmithJohn == <<"S","m","i","t","h"," ","J","o","h","n">>

Txt_JohnSmith == <<"J","o","h","n"," ","S","m","i","t","h">>

Txt_JOHN_SMITH == <<" ","J","O","H","N","\t"," ","s","m","i","t","h"," ">>

Txt_Anything == <<"A","n","y","t","h","i","n","g">>

\* 20 characters; Txt_C85 scores exactly 85 against it, Txt_C84 84.2
Txt_Q20 == Rep("a", 17) \o Rep("b", 3)

Txt_C85 == Rep("a", 17) \o Rep("c", 3)

Txt_C84 == Rep("a", 16) \o Rep("c", 2)

\* queries fuzzy_match is called with when it is checked alone
QueryPool == { Txt_Empty, Txt_Blank, Txt_AnaLee, Txt_SmithJohn, Txt_Q20 }

\* candidate names fuzzy_match is called with when it is checked alone
CandPool == { Txt_Empty, Txt_Tab, Txt_AnaLee, Txt_ana_lee, Txt_LeeAna,
              Txt_JohnSmith, Txt_JOHN_SMITH, Txt_Anything, Txt_C85, Txt_C84 }

SeqsUpTo(S, n) == UNION { [1..k -> S] : k \in 0..n }

IsDuplicateFree(seq) == \A i, j \in DOMAIN seq : i # j => seq[i] # seq[j]

\* what the name input can hold in a screening run
NamePool == { Txt_Empty, Txt_Blank, Txt_AnaLee, Txt_SmithJohn }

\* names a loaded list can hold: the loaders drop missing and empty names
LoadPool == { Txt_Tab, Txt_AnaLee, Txt_JohnSmith }

\* lists a loader can return: load_ofac ends in unique(), load_un in set()
LoadedLists == { l \in SeqsUpTo(LoadPool, MaxLoaded) : IsDuplicateFree(l) }

Txt_iran == <<"i","r","a","n">>

Txt_Iran == <<"I","r","a","n">>

Txt_IRAN == <<"I","R","A","N">>

Txt_iran_sp == <<"i","r","a","n"," ">>

Txt_NorthKorea == <<"N","o","r","t","h"," ","K","o","r","e","a">>

Txt_myanmar == <<"m","y","a","n","m","a","r">>

Txt_panama == <<"p","a","n","a","m","a">>

Txt_PANAMA == <<"P","A","N","A","M","A">>

Txt_Haiti == <<"H","a","i","t","i">>

Txt_SouthSudan == <<"s","o","u","t","h"," ","S","u","d","a","n">>

Txt_syria == <<"s","y","r","i","a">>

Txt_Syria == <<"S","y","r","i","a">>

Txt_france == <<"f","r","a","n","c","e">>

Txt_FRANCE == <<"F","R","A","N","C","E">>

\* what the country input can hold in a screening run (never None)
CountryInputs == { Txt_Empty, Txt_Iran, Txt_iran_sp, Txt_PANAMA, Txt_france }

\* countries compute_risk is called with when it is checked alone
CountryPool == { NoValue, Txt_Empty, Txt_Blank, Txt_iran, Txt_Iran, Txt_IRAN,
                 Txt_iran_sp, Txt_NorthKorea, Txt_myanmar, Txt_panama,
                 Txt_PANAMA, Txt_Haiti, Txt_SouthSudan, Txt_syria, Txt_Syria,
                 Txt_france, Txt_FRANCE }

Txt_domain == <<"e","x",".","i","r">>

DomainInputs == { Txt_Empty, Txt_domain }

\* what whois.whois(domain) can give back
WhoisRecords ==
    { [creation_date |-> "2020-01-01 00:00:00", registrar |-> "Registrar", country |-> "IR"],
      [creation_date |-> "None", registrar |-> "None", country |-> "None"] }

WhoisOutcomes ==
    { [raises |-> TRUE] } \cup { [raises |-> FALSE, w |-> r] : r \in WhoisRecords }

\* ------------------------------------------------------------------------
\* State
\* ------------------------------------------------------------------------

VARIABLES
    pc,          \* position of the script: idle, ofac, un, results, country, cyber, risk, done
    whois,       \* the optional module: "module", or "None" when its import failed
    name,        \* the three text inputs
    country,
    domain,
    ofac_load,   \* what load_ofac() did in this run: pending, loaded, failed
    un_load,
    ofac_names,  \* the loaded lists, empty while not loaded
    un_names,
    matches,
    results,
    ofac_hit,
    un_hit,
    shown,       \* what the script has put on the page, in order
    risk_score,
    factors,
    args,        \* arguments and return value of a function checked alone
    ret

vars == <<pc, whois, name, country, domain, ofac_load, un_load, ofac_names, un_names, matches,
          results, ofac_hit, un_hit, shown, risk_score, factors, args, ret>>

inputs == <<name, country, domain>>

Show(call, text) == [call |-> call, text |-> text]

\* the script's names before the screening block has run
ScriptUnset ==
    /\ ofac_load = "pending"
    /\ un_load = "pending"
    /\ ofac_names = <<>>
    /\ un_names = <<>>
    /\ matches = <<>>
    /\ results = <<>>
    /\ ofac_hit = FALSE
    /\ un_hit = FALSE
    /\ shown = <<>>
    /\ risk_score = 0
    /\ factors = <<>>

Init ==
    /\ pc = "idle"
    /\ whois \in {"module", "None"}
    /\ name = <<>>
    /\ country = <<>>
    /\ domain = <<>>
    /\ ScriptUnset
    /\ args = <<>>
    /\ ret = <<>>

\* ------------------------------------------------------------------------
\* The screening script
\* ------------------------------------------------------------------------

\* a rerun of the script in which "run and name" is false
IdleRerun ==
    /\ pc \in {"idle", "done"}
    /\ \E n \in NamePool, c \in CountryInputs, d \in DomainInputs, run \in BOOLEAN :
         /\ ~(run /\ n # <<>>)
         /\ name' = n
         /\ country' = c
         /\ domain' = d
    /\ pc' = "idle"
    /\ ofac_load' = "pending"
    /\ un_load' = "pending"
    /\ ofac_names' = <<>>
    /\ un_names' = <<>>
    /\ matches' = <<>>
    /\ results' = <<>>
    /\ ofac_hit' = FALSE
    /\ un_hit' = FALSE
    /\ shown' = <<>>
    /\ risk_score' = 0
    /\ factors' = <<>>
    /\ UNCHANGED <<whois, args, ret>>

\* a rerun with the button pressed and a name: the screening block starts
StartScreening ==
    /\ pc \in {"idle", "done"}
    /\ \E n \in NamePool, c \in CountryInputs, d \in DomainInputs :
         /\ n # <<>>
         /\ name' = n
         /\ country' = c
         /\ domain' = d
    /\ results' = <<>>
    /\ ofac_hit' = FALSE
    /\ un_hit' = FALSE
    /\ ofac_load' = "pending"
    /\ un_load' = "pending"
    /\ ofac_names' = <<>>
    /\ un_names' = <<>>
    /\ matches' = <<>>
    /\ shown' = <<>>
    /\ risk_score' = 0
    /\ factors' = <<>>
    /\ pc' = "ofac"
    /\ UNCHANGED <<whois, args, ret>>

OfacCheck_abort ==
    /\ pc = "ofac"
    /\ \/ \E loaded \in LoadedLists :
            LET m == fuzzy_match(name, loaded) IN
            /\ ofac_load' = "loaded"
            /\ ofac_names' = loaded
            /\ matches' = m
            /\ ofac_hit' = IF m # <<>> THEN TRUE ELSE ofac_hit
            /\ results' = IF m # <<>> THEN Append(results, <<"OFAC SDN List", m>>) ELSE results
            /\ pc' = "un"
            /\ UNCHANGED shown
       \/ /\ ofac_load' = "failed"
          /\ shown' = Append(shown, Show("exception", "load_ofac failed"))
          /\ pc' = "done"
          /\ UNCHANGED <<ofac_names, matches, ofac_hit, results>>
    /\ UNCHANGED <<whois, inputs, un_load, un_names, un_hit, risk_score, factors, args, ret>>

\* the OFAC try block
OfacCheck ==
    /\ pc = "ofac"
    /\ \/ \E loaded \in LoadedLists :
            LET m == fuzzy_match(name, loaded) IN
            /\ ofac_load' = "loaded"
            /\ ofac_names' = loaded
            /\ matches' = m
            /\ ofac_hit' = IF m # <<>> THEN TRUE ELSE ofac_hit
            /\ results' = IF m # <<>> THEN Append(results, <<"OFAC SDN List", m>>) ELSE results
            /\ UNCHANGED shown
       \/ \* load_ofac raised
          /\ ofac_load' = "failed"
          /\ shown' = Append(shown, Show("warning", "OFAC check failed"))
          /\ UNCHANGED <<ofac_names, matches, ofac_hit, results>>
    /\ pc' = "un"
    /\ UNCHANGED <<whois, inputs, un_load, un_names, un_hit, risk_score, factors, args, ret>>

UnCheck_always_hit ==
    /\ pc = "un"
    /\ \/ \E loaded \in LoadedLists :
            LET m == fuzzy_match(name, loaded) IN
            /\ un_load' = "loaded"
            /\ un_names' = loaded
            /\ matches' = m
            /\ un_hit' = TRUE
            /\ results' = Append(results, <<"UN Consolidated Sanctions List", m>>)
            /\ UNCHANGED shown
       \/ /\ un_load' = "failed"
          /\ shown' = Append(shown, Show("warning", "UN check failed"))
          /\ UNCHANGED <<un_names, matches, un_hit, results>>
    /\ pc' = "results"
    /\ UNCHANGED <<whois, inputs, ofac_load, ofac_names, ofac_hit, risk_score, factors,
                   args, ret>>

\* the UN try block
UnCheck ==
    /\ pc = "un"
    /\ \/ \E loaded \in LoadedLists :
            LET m == fuzzy_match(name, loaded) IN
            /\ un_load' = "loaded"
            /\ un_names' = loaded
            /\ matches' = m
            /\ un_hit' = IF m # <<>> THEN TRUE ELSE un_hit
            /\ results' = IF m # <<>>
                          THEN Append(results, <<"UN Consolidated Sanctions List", m>>)
                          ELSE results
            /\ UNCHANGED shown
       \/ \* load_un raised
          /\ un_load' = "failed"
          /\ shown' = Append(shown, Show("warning", "UN check failed"))
          /\ UNCHANGED <<un_names, matches, un_hit, results>>
    /\ pc' = "results"
    /\ UNCHANGED <<whois, inputs, ofac_load, ofac_names, ofac_hit, risk_score, factors,
                   args, ret>>

RECURSIVE results_display(_)
results_display(rs) ==
    IF rs = <<>> THEN <<>>
    ELSE << Show("error", rs[1][1]), Show("dataframe", rs[1][2]) >>
         \o results_display(Tail(rs))

\* the results section
ShowResults ==
    /\ pc = "results"
    /\ shown' = shown
                \o <<Show("subheader", "Screening Results")>>
                \o (IF results # <<>> THEN results_display(results)
                    ELSE <<Show("success", "No matches found on UN or OFAC public lists")>>)
    /\ matches' = IF results # <<>> THEN results[Len(results)][2] ELSE matches
    /\ pc' = "country"
    /\ UNCHANGED <<whois, inputs, ofac_load, un_load, ofac_names, un_names, results, ofac_hit, un_hit,
                   risk_score, factors, args, ret>>

\* the country risk section
CountryRisk ==
    /\ pc = "country"
    /\ shown' =
         IF country # <<>>
         THEN shown \o <<Show("subheader", "Country Risk Context")>>
              \o (IF lower(country) \in FATF_HIGH_RISK
                  THEN <<Show("warning", "High-risk jurisdiction (FATF)")>>
                  ELSE IF lower(country) \in FATF_MONITORED
                  THEN <<Show("info", "Monitored jurisdiction (FATF)")>>
                  ELSE <<Show("success", "No elevated FATF country risk identified")>>)
         ELSE shown
    /\ pc' = "cyber"
    /\ UNCHANGED <<whois, inputs, ofac_load, un_load, ofac_names, un_names, matches, results, ofac_hit,
                   un_hit, risk_score, factors, args, ret>>

\* check_domain(domain), outcome being what whois.whois does
check_domain(domain_, whois_, outcome) ==
    IF whois_ = "None"
    THEN [domain |-> domain_,
          warning |-> "WHOIS module not available in this environment"]
    ELSE IF outcome.raises
    THEN [domain |-> domain_, error |-> "WHOIS lookup failed"]
    ELSE [domain |-> domain_,
          creation_date |-> outcome.w.creation_date,
          registrar |-> outcome.w.registrar,
          country |-> outcome.w.country]

CyberSignals_folded ==
    /\ pc = "cyber"
    /\ IF domain # <<>>
       THEN \E outcome \in WhoisOutcomes :
              LET d == check_domain(domain, whois, outcome) IN
              /\ shown' = shown \o << Show("subheader", "Cyber / Domain Signals"),
                                      Show("json", d) >>
              /\ un_hit' = IF "error" \in DOMAIN d THEN TRUE ELSE un_hit
       ELSE UNCHANGED <<shown, un_hit>>
    /\ pc' = "risk"
    /\ UNCHANGED <<whois, inputs, ofac_load, un_load, ofac_names, un_names, matches, results, ofac_hit,
                   risk_score, factors, args, ret>>

\* the domain signals section
CyberSignals ==
    /\ pc = "cyber"
    /\ IF domain # <<>>
       THEN \E outcome \in WhoisOutcomes :
              shown' = shown \o << Show("subheader", "Cyber / Domain Signals"),
                                   Show("json", check_domain(domain, whois, outcome)) >>
       ELSE UNCHANGED shown
    /\ pc' = "risk"
    /\ UNCHANGED <<whois, inputs, ofac_load, un_load, ofac_names, un_names, matches, results, ofac_hit,
                   un_hit, risk_score, factors, args, ret>>

\* the risk score section
RiskScore ==
    /\ pc = "risk"
    /\ LET r == compute_risk(ofac_hit, un_hit, country) IN
       /\ risk_score' = r[1]
       /\ factors' = r[2]
       /\ shown' = shown
                   \o << Show("subheader", "Overall Risk Assessment"),
                         Show("metric", r[1]) >>
                   \o (IF r[2] # <<>>
                       THEN <<Show("write", "Risk drivers:")>>
                            \o [i \in 1..Len(r[2]) |-> Show("write", r[2][i])]
                       ELSE <<Show("write", "No material public risk factors identified.")>>)
    /\ pc' = "done"
    /\ UNCHANGED <<whois, inputs, ofac_load, un_load, ofac_names, un_names, matches, results, ofac_hit,
                   un_hit, args, ret>>

\* the steps of a screening run once it has started
ScriptStep ==
    \/ OfacCheck
    \/ UnCheck
    \/ ShowResults
    \/ CountryRisk
    \/ CyberSignals
    \/ RiskScore

Next ==
    \/ IdleRerun
    \/ StartScreening
    \/ OfacCheck
    \/ UnCheck
    \/ ShowResults
    \/ CountryRisk
    \/ CyberSignals
    \/ RiskScore

Spec == Init /\ [][Next]_vars

\* a started script runs to its end
FairSpec == Spec /\ WF_vars(ScriptStep)

\* ------------------------------------------------------------------------
\* fuzzy_match and compute_risk on their own
\* ------------------------------------------------------------------------

\* the script does not run; pc is "call" before the call, "return" after it
ScriptIdle ==
    /\ pc = "call"
    /\ whois = "None"
    /\ name = <<>>
    /\ country = <<>>
    /\ domain = <<>>
    /\ ScriptUnset

InitMatch ==
    /\ ScriptIdle
    /\ args \in [query : QueryPool, candidates : SeqsUpTo(CandPool, MaxCands)]
    /\ ret = <<>>

FuzzyMatchCall ==
    /\ pc = "call"
    /\ ret' = fuzzy_match(args.query, args.candidates)
    /\ pc' = "return"
    /\ UNCHANGED <<whois, inputs, ofac_load, un_load, ofac_names, un_names, matches,
                   results, ofac_hit, un_hit, shown, risk_score, factors, args>>

NextMatch == FuzzyMatchCall

SpecMatch == InitMatch /\ [][NextMatch]_vars

InitRisk ==
    /\ ScriptIdle
    /\ args \in [ofac_hit : BOOLEAN, un_hit : BOOLEAN, country : CountryPool]
    /\ ret = <<>>

ComputeRiskCall ==
    /\ pc = "call"
    /\ ret' = compute_risk(args.ofac_hit, args.un_hit, args.country)
    /\ pc' = "return"
    /\ UNCHANGED <<whois, inputs, ofac_load, un_load, ofac_names, un_names, matches,
                   results, ofac_hit, un_hit, shown, risk_score, factors, args>>

NextRisk == ComputeRiskCall

SpecRisk == InitRisk /\ [][NextRisk]_vars

\* ------------------------------------------------------------------------
\* Properties
\* ------------------------------------------------------------------------

Returned == pc = "return"

Bool01(b) == IF b THEN 1 ELSE 0

\* C1: whatever the hit flags and the country (None, empty, high-risk,
\* monitored, unknown, in any letter case), the score compute_risk returns
\* is an integer between 0 and 100.
C1_ScoreInRange == Returned => ret[1] \in 0..100

\* the three contributions sum to 130 and the cap brings the score to 100
C1_Witness ==
    /\ Returned
    /\ args.ofac_hit /\ args.un_hit /\ args.country = Txt_IRAN
    /\ ret[1] = 100

JurisdictionPoints(c) ==
    IF c = NoValue THEN 0
    ELSE IF lower(c) \in FATF_HIGH_RISK THEN 20
    ELSE IF lower(c) \in FATF_MONITORED THEN 10
    ELSE 0

\* C2: compute_risk returns min(60*[ofac_hit] + 50*[un_hit] + j, 100), j
\* being 20 for a high-risk country, 10 for a monitored one and 0 otherwise
\* (after lower-casing), and the factors are the labels of the contributions
\* that fired, in the order OFAC, UN, jurisdiction.
C2_ScoreAndFactors ==
    Returned =>
      LET j == JurisdictionPoints(args.country) IN
      /\ ret[1] = Min(60 * Bool01(args.ofac_hit) + 50 * Bool01(args.un_hit) + j, 100)
      /\ ret[2] = (IF args.ofac_hit THEN <<"OFAC sanctions exposure">> ELSE <<>>)
                  \o (IF args.un_hit THEN <<"UN sanctions exposure">> ELSE <<>>)
                  \o (IF j = 20 THEN <<"High-risk FATF jurisdiction">>
                      ELSE IF j = 10 THEN <<"FATF monitored jurisdiction">>
                      ELSE <<>>)

\* a monitored country written in capitals, with one sanctions hit
C2_Witness ==
    /\ Returned
    /\ ~args.ofac_hit /\ args.un_hit /\ args.country = Txt_PANAMA
    /\ ret = <<60, <<"UN sanctions exposure", "FATF monitored jurisdiction">>>>

\* C3: each candidate string appears at most once in the output of
\* fuzzy_match, also when it occurs several times in the candidate list.
C3_NoCandidateTwice ==
    Returned => \A k, l \in DOMAIN ret : k # l => ret[k][1] # ret[l][1]

\* C4: a query that normalizes to the empty string gets no matches,
\* whatever the candidates, and so does any query on an empty list.
C4_EmptyQueryNoMatches ==
    (Returned /\ (normalize(args.query) = <<>> \/ args.candidates = <<>>))
      => ret = <<>>

Similarity(q, c) == token_sort_ratio(normalize(q), normalize(c))

Occurrences(seq, x) == Cardinality({ i \in DOMAIN seq : seq[i] = x })

Names(ms) == [k \in DOMAIN ms |-> ms[k][1]]

\* C6: the output of fuzzy_match is in descending order of score, and the
\* matches of equal score are in the order their candidates have in the
\* input list.
C6_DescendingAndStable ==
    Returned =>
      /\ \A k \in 1..(Len(ret) - 1) : ~score_above(ret[k + 1][2], ret[k][2])
      /\ \A k \in DOMAIN ret :
           Names(SelectSeq(ret, LAMBDA m : m[2] = ret[k][2]))
             = SelectSeq(args.candidates,
                         LAMBDA c : Similarity(args.query, c) = ret[k][2])

\* three matches: the lowest score was first in the input and is last in
\* the output, the two others tie and differ in their text
C6_Witness ==
    /\ Returned
    /\ Len(ret) = 3
    /\ ret[1][2] = ret[2][2] /\ ret[1][1] # ret[2][1]
    /\ score_above(ret[2][2], ret[3][2])
    /\ args.candidates[1] = ret[3][1]

\* C7: fuzzy_match keeps a candidate, with its original text and its score,
\* exactly when similarity(normalize(query), normalize(candidate)) >= 85,
\* and neither adds nor drops nor alters any other.
C7_KeptIffAtLeast85 ==
    Returned =>
      /\ \A i \in DOMAIN args.candidates :
           LET c == args.candidates[i] IN
           Occurrences(Names(ret), c) =
             IF score_ge(Similarity(args.query, c), 85)
             THEN Occurrences(args.candidates, c) ELSE 0
      /\ \A k \in DOMAIN ret :
           /\ \E i \in DOMAIN args.candidates : args.candidates[i] = ret[k][1]
           /\ ret[k][2] = Similarity(args.query, ret[k][1])

\* a candidate scoring exactly 85 is kept while one scoring 84.2 is not
C7_Witness ==
    /\ Returned
    /\ \E k \in DOMAIN ret : ret[k][1] = Txt_C85 /\ ret[k][2] = [num |-> 85, den |-> 1]
    /\ \E i \in DOMAIN args.candidates : args.candidates[i] = Txt_C84
    /\ \A k \in DOMAIN ret : ret[k][1] # Txt_C84

Tokens(text) == split(lower(text))

IsPermutation(a, b) ==
    /\ Len(a) = Len(b)
    /\ \A i \in DOMAIN a : Occurrences(a, a[i]) = Occurrences(b, a[i])

\* C8: a candidate whose tokens, compared without case, are a permutation
\* of the tokens of a non-empty query is returned with a score >= 85.
C8_WordOrderTolerance ==
    (Returned /\ args.query # <<>>) =>
      \A i \in DOMAIN args.candidates :
        IsPermutation(Tokens(args.candidates[i]), Tokens(args.query)) =>
          \E k \in DOMAIN ret :
            ret[k][1] = args.candidates[i] /\ score_ge(ret[k][2], 85)

\* "Smith John" finds " JOHN<tab> smith ": other order, case and spacing
C8_Witness ==
    /\ Returned
    /\ args.query = Txt_SmithJohn
    /\ \E k \in DOMAIN ret : ret[k][1] = Txt_JOHN_SMITH

Warned(text) ==
    \E i \in DOMAIN shown : shown[i].call = "warning" /\ shown[i].text = text

\* the assessment of this run has been computed and put on the page
Assessed ==
    /\ <<risk_score, factors>> = compute_risk(ofac_hit, un_hit, country)
    /\ \E i \in DOMAIN shown : shown[i].call = "metric" /\ shown[i].text = risk_score

AfterOfac == pc \in {"un", "results", "country", "cyber", "risk", "done"}

AfterUn == pc \in {"results", "country", "cyber", "risk", "done"}

\* C5: whichever loaders raise, the run goes on: the UN step is taken after
\* the OFAC step whether that failed or not, a source gets a warning exactly
\* when its loader failed, and every started run reaches its end with the
\* risk assessment computed.
C5_LoaderFailuresNotFatal ==
    /\ [](AfterOfac => /\ ofac_load # "pending"
                        /\ (ofac_load = "failed") <=> Warned("OFAC check failed"))
    /\ [](AfterUn => /\ un_load # "pending"
                      /\ (un_load = "failed") <=> Warned("UN check failed"))
    /\ [](~AfterOfac => ~Warned("OFAC check failed"))
    /\ [](~AfterUn => ~Warned("UN check failed"))
    /\ [](pc = "done" => Assessed)
    /\ [][pc = "ofac" => pc' = "un"]_vars
    /\ [][pc = "un" => pc' = "results"]_vars
    /\ ((pc = "ofac") ~> (pc = "done"))

\* both loaders failed and the assessment was still computed
C5_Witness ==
    /\ pc = "done"
    /\ ofac_load = "failed" /\ un_load = "failed"
    /\ Warned("OFAC check failed") /\ Warned("UN check failed")
    /\ Assessed

HitOf(load, loaded) == load = "loaded" /\ fuzzy_match(name, loaded) # <<>>

\* C9: the risk score and the factors of a run are determined by the name,
\* the country and the loaded lists alone: the domain input and the outcome
\* of check_domain have no part in them, and the domain step changes none
\* of what the assessment is computed from.
C9_DomainNotInScore ==
    /\ [](pc = "done" =>
            <<risk_score, factors>>
              = compute_risk(HitOf(ofac_load, ofac_names), HitOf(un_load, un_names), country))
    /\ [][pc = "cyber" =>
            UNCHANGED <<name, country, ofac_load, un_load, ofac_names, un_names,
                        ofac_hit, un_hit>>]_vars

\* a run whose WHOIS lookup failed, with its assessment computed
C9_Witness ==
    /\ pc = "done"
    /\ domain # <<>>
    /\ \E i \in DOMAIN shown :
         /\ shown[i].call = "json"
         /\ "error" \in DOMAIN shown[i].text
    /\ risk_score = 0

\* C10: when compute_risk is called, a source's hit flag is true exactly
\* when its loader succeeded and fuzzy_match found a match, and results
\* holds the (label, matches) entries of the sources with a hit, OFAC
\* before UN.
C10_HitFlagsAndResults ==
    pc = "risk" =>
      /\ ofac_hit = HitOf(ofac_load, ofac_names)
      /\ un_hit = HitOf(un_load, un_names)
      /\ ofac_load = "failed" => ~ofac_hit
      /\ un_load = "failed" => ~un_hit
      /\ results =
           (IF ofac_hit THEN << <<"OFAC SDN List", fuzzy_match(name, ofac_names)>> >>
            ELSE <<>>)
           \o (IF un_hit
               THEN << <<"UN Consolidated Sanctions List", fuzzy_match(name, un_names)>> >>
               ELSE <<>>)

\* the OFAC loader failed, the UN list was loaded and had no match
C10_Witness ==
    /\ pc = "risk"
    /\ ofac_load = "failed" /\ ~ofac_hit
    /\ un_load = "loaded" /\ un_names # <<>> /\ ~un_hit
    /\ results = <<>>

====
